---- MODULE Spec2Model ----
(***************************************************************************)
(* KeystoneDB Python bindings: the streaming scan aggregation of           *)
(* Client.scan, the client's calls, close and context manager (client.py), *)
(* the request builders (builders.py), and the embedded database as its    *)
(* tests use it (test_smoke.py).                                           *)
(*                                                                         *)
(* The specifications share the module's variables:                        *)
(*   SpecScan     one Client.scan call consuming one response stream;      *)
(*   SpecScanFair SpecScan with progress of the loop and the stream;       *)
(*   SpecScans    scan calls of two threads, one after another and         *)
(*                interleaved, each over its own stream;                   *)
(*   SpecBuilder  one builder object, its mutator calls and build() calls; *)
(*   SpecCaller   SpecBuilder plus the caller's writes into the request    *)
(*                that build() returned;                                   *)
(*   SpecNumber   a put builder given number attributes as decimal texts;  *)
(*   SpecClient   one client used by two threads: operations, close() and  *)
(*                the `with` block, over one grpc channel;                 *)
(*   SpecForward  batch and transactional requests through the client;     *)
(*   SpecStore    put, get and delete through the client against the      *)
(*                service's store;                                         *)
(*   SpecReopen   the embedded database: put, flush, close, open, get.     *)
(***************************************************************************)
EXTENDS Integers, Sequences, FiniteSets, TLC

VARIABLES
    stream,        \* the chunks the server sends on this scan's response stream
    streamEnd,     \* how the stream ends: "eos" or "rpc_error" (transport failure)
    consumed,      \* number of chunks Client.scan has taken from the iterator
    scanState,     \* position of the scan call: Idle, Receiving, Completed, Failed
    items,         \* the local accumulator `items` of Client.scan
    returned,      \* the value Client.scan returned to its caller: Nothing or Some(list)
    raised,        \* the exception Client.scan raised to its caller: Nothing or Some(exc)
    scans,         \* per calling thread, its own Client.scan call (the specification of several scans)
    builder,       \* the builder object: its class and its instance attributes
    heap,          \* the dict objects the builder created; a reference is an index
    calls,         \* the mutator calls made on the builder so far, in order
    request,       \* the request most recently returned by build(): Nothing or Some(r)
    builtAt,       \* Len(calls) when that request was built
    writes,        \* number of writes the caller made into a built request
    server,        \* "up" or "down": whether the address given to connect is served
    channel,       \* the grpc channel: [connected, closed, closes]
    clientChannel, \* Client._channel: Nothing (None) or Some(channel object)
    callers,       \* per calling thread: its current client operation
    scope,         \* the `with` block around the client: "none", "inside", "exited"
    closeCalls,    \* number of Client.close() calls that have returned
    errorPath,     \* "none"; "raised": an operation has raised; "closed": close() was called after that
    store,         \* the remote database: key -> item
    history,       \* the operations the service has applied, in order
    got,           \* the result of the last get: Nothing or Some(response)
    disk,          \* the embedded database file: key -> item, as last written to the path
    handle         \* the embedded Database handle: "none", "open" or "closed"

scanVars == <<stream, streamEnd, consumed, scanState, items, returned, raised, scans>>

builderVars == <<builder, heap, calls, request, builtAt, writes>>

clientVars == <<server, channel, clientChannel, callers, scope, closeCalls, errorPath>>

storeVars == <<store, history, got, disk, handle>>

vars == <<scanVars, builderVars, clientVars, storeVars>>

\* An outcome slot is empty (nothing returned / nothing raised yet) or holds
\* one value: Nothing, or Some(v).
Nothing == {}
Some(v) == {v}
The(slot) == CHOOSE v \in slot : TRUE

(***************************************************************************)
(* Bounds                                                                  *)
(***************************************************************************)
\* Longest response stream, in chunks.
MaxChunks == 3

\* The item sequences one chunk may carry.
ChunkItems == {<<>>, <<"a">>, <<"b">>, <<"a", "b">>}

\* The values of a chunk's error field; "" is protobuf's default (no error).
ChunkErrors == {"", "E1", "E2"}

ScanResponse == [items : ChunkItems, error : ChunkErrors]

RECURSIVE SeqsUpTo(_, _)
SeqsUpTo(S, n) ==
    IF n = 0 THEN {<<>>}
    ELSE LET shorter == SeqsUpTo(S, n - 1)
         IN  shorter \cup {Append(s, x) : s \in {t \in shorter : Len(t) = n - 1}, x \in S}

(***************************************************************************)
(* Client.scan                                                             *)
(***************************************************************************)
\* `if response.error:` -- truthiness of a protobuf string field.
HasError(response) == response.error # ""

\* Mutant: the scan error is raised as the transport's error class.
ScanExceptionAsRpcError(response) ==
    [type |-> "grpc.RpcError", message |-> "Scan error: " \o response.error]

\* `Exception(f"Scan error: {response.error}")`
ScanException(response) ==
    [type |-> "Exception", message |-> "Scan error: " \o response.error]

\* What the response iterator raises when the transport fails mid-stream.
RpcError == [type |-> "grpc.RpcError", message |-> "transport"]

\* Mutant: `items = response.items` (the accumulator is replaced).
ExtendReplace(acc, response) == response.items

\* `items.extend(response.items)`
Extend(acc, response) == acc \o response.items

\* The calling threads.
Callers == {"c1", "c2"}

\* A thread that is not inside a client operation.
IdleCaller ==
    [pc |-> "idle", op |-> "", request |-> Nothing, stubCalls |-> 0,
     rpc |-> Nothing, outcome |-> Nothing]

\* No client is in play (the scan, builder and store specifications).
NoClient ==
    /\ server = "up"
    /\ channel = [connected |-> FALSE, closed |-> FALSE, releases |-> 0]
    /\ clientChannel = Nothing
    /\ callers = [c \in Callers |-> IdleCaller]
    /\ scope = "none"
    /\ closeCalls = 0
    /\ errorPath = "none"

\* No database is in play.
NoStore ==
    /\ store = <<>>
    /\ history = <<>>
    /\ got = Nothing
    /\ disk = <<>>
    /\ handle = "none"

\* No builder is in play (the scan specification).
NoBuilder ==
    /\ builder = [class |-> "none"]
    /\ heap = <<>>
    /\ calls = <<>>
    /\ request = Nothing
    /\ builtAt = 0
    /\ writes = 0

InitScan ==
    /\ NoBuilder
    /\ NoClient
    /\ NoStore
    /\ stream \in SeqsUpTo(ScanResponse, MaxChunks)
    /\ streamEnd \in {"eos", "rpc_error"}
    /\ consumed = 0
    /\ scanState = "Idle"
    /\ items = <<>>
    /\ returned = Nothing
    /\ raised = Nothing
    /\ scans = <<>>

\* Mutant: the loop goes on whatever the call's state (a handler around the
\* loop body that carries on after the raise or the return).
RunningAlways == TRUE

Running == scanState \in {"Idle", "Receiving"}

\* Mutant: the error chunk ends the loop with `break`, so the items gathered
\* so far are returned.
ScanErrorChunkBreak ==
    /\ scanState \in {"Idle", "Receiving"}
    /\ consumed < Len(stream)
    /\ stream[consumed + 1].error # ""
    /\ consumed' = consumed + 1
    /\ returned' = Some(items)
    /\ scanState' = "Completed"
    /\ UNCHANGED <<stream, streamEnd, items, raised>>
    /\ UNCHANGED <<scans, builderVars, clientVars, storeVars>>

\* Mutant: the error is recorded and the loop goes on reading chunks.
ScanErrorChunkContinue ==
    /\ scanState \in {"Idle", "Receiving"}
    /\ consumed < Len(stream)
    /\ stream[consumed + 1].error # ""
    /\ consumed' = consumed + 1
    /\ raised' = Some([type |-> "Exception",
                       message |-> "Scan error: " \o stream[consumed + 1].error])
    /\ scanState' = "Receiving"
    /\ UNCHANGED <<stream, streamEnd, items, returned>>
    /\ UNCHANGED <<scans, builderVars, clientVars, storeVars>>

\* One iteration of `for response in self._stub.Scan(request)` whose chunk
\* carries an error: the raise leaves the loop and the function.
ScanErrorChunk ==
    /\ Running
    /\ consumed < Len(stream)
    /\ LET response == stream[consumed + 1]
       IN  /\ HasError(response)
           /\ raised' = Some(ScanException(response))
    /\ consumed' = consumed + 1
    /\ scanState' = "Failed"
    /\ UNCHANGED <<stream, streamEnd, items, returned>>
    /\ UNCHANGED <<scans, builderVars, clientVars, storeVars>>

\* Mutant: the loop waits on the chunk instead of taking it.
ScanItemsChunkWait ==
    /\ scanState \in {"Idle", "Receiving"}
    /\ consumed < Len(stream)
    /\ stream[consumed + 1].error = ""
    /\ scanState' = "Receiving"
    /\ UNCHANGED <<stream, streamEnd, consumed, items, returned, raised>>
    /\ UNCHANGED <<scans, builderVars, clientVars, storeVars>>

\* One iteration of the loop whose chunk carries no error.
ScanItemsChunk ==
    /\ Running
    /\ consumed < Len(stream)
    /\ LET response == stream[consumed + 1]
       IN  /\ ~HasError(response)
           /\ items' = Extend(items, response)
    /\ consumed' = consumed + 1
    /\ scanState' = "Receiving"
    /\ UNCHANGED <<stream, streamEnd, returned, raised>>
    /\ UNCHANGED <<scans, builderVars, clientVars, storeVars>>

\* The iterator is exhausted (StopIteration): `return items`.
ScanEndOfStream ==
    /\ Running
    /\ consumed = Len(stream)
    /\ streamEnd = "eos"
    /\ returned' = Some(items)
    /\ scanState' = "Completed"
    /\ UNCHANGED <<stream, streamEnd, consumed, items, raised>>
    /\ UNCHANGED <<scans, builderVars, clientVars, storeVars>>

\* The iterator raises grpc.RpcError: it propagates out of scan unchanged.
ScanTransportFailure ==
    /\ Running
    /\ consumed = Len(stream)
    /\ streamEnd = "rpc_error"
    /\ raised' = Some(RpcError)
    /\ scanState' = "Failed"
    /\ UNCHANGED <<stream, streamEnd, consumed, items, returned>>
    /\ UNCHANGED <<scans, builderVars, clientVars, storeVars>>

NextScan ==
    \/ ScanErrorChunk
    \/ ScanItemsChunk
    \/ ScanEndOfStream
    \/ ScanTransportFailure

SpecScan == InitScan /\ [][NextScan]_vars

\* The scan call with progress: the thread running the loop is scheduled and
\* the iterator delivers what the stream holds, a chunk, the end of the
\* stream or the transport failure, each time the loop asks.
SpecScanFair == SpecScan /\ WF_vars(NextScan)

(***************************************************************************)
(* Request builders (builders.py)                                          *)
(*                                                                         *)
(* bytes are tuples of byte values, str are strings, Optional[T] is        *)
(* Nothing or Some(v), and a dict is a function on its keys.  The dicts a  *)
(* builder creates live in `heap`; a builder attribute or a request entry  *)
(* that holds a dict holds its index in the heap.                          *)
(***************************************************************************)
\* Most mutator calls made on one builder.
MaxCalls == 3

\* Most writes the caller makes into built requests.
MaxWrites == 1

\* The arguments the calls are drawn from.
PartitionKeys == {<<>>, <<1>>}
SortKeys == {<<1>>, <<2>>}
AttrNames == {"name", "age"}
StringValues == {"Alice", "Bob"}
NumberValues == {"30"}
BoolValues == {TRUE}
BinaryValues == {<<7>>}
Limits == {10, 100}
IndexNames == {"status-index", "date-index"}
SegmentNumbers == {0, 4}
SegmentTotals == {0, 4}

\* An expression is the sequence of its tokens; a token of PlaceholderNames
\* is a placeholder to be resolved from the expression values.
PlaceholderNames == {":min"}
Conditions == {<<"attribute_not_exists", "(", "name", ")">>, <<"age", ">", ":min">>}
BoundValues == {[number_value |-> "18"]}

EmptyDict == <<>>

\* Mutant: `d.setdefault(k, v)` (an existing entry is kept).
DictSetDefault(d, k, v) ==
    [x \in DOMAIN d \cup {k} |-> IF x \in DOMAIN d THEN d[x] ELSE v]

\* `d[k] = v`
DictSet(d, k, v) ==
    [x \in DOMAIN d \cup {k} |-> IF x = k THEN v ELSE d[x]]

\* `pb.Value(**val)`: the message with the fields named by val set.
PbValue(val) == [f \in DOMAIN val |-> val[f]]

\* PutRequestBuilder.__init__
NewPutRequestBuilder(partition_key) ==
    /\ builder = [class |-> "PutRequestBuilder",
                  partition_key |-> partition_key,
                  sort_key |-> Nothing,
                  attributes |-> 1,
                  condition |-> Nothing,
                  expression_values |-> 2]
    /\ heap = <<EmptyDict, EmptyDict>>

\* GetRequestBuilder.__init__
NewGetRequestBuilder(partition_key) ==
    /\ builder = [class |-> "GetRequestBuilder",
                  partition_key |-> partition_key,
                  sort_key |-> Nothing]
    /\ heap = <<>>

\* QueryRequestBuilder.__init__
NewQueryRequestBuilder(partition_key) ==
    /\ builder = [class |-> "QueryRequestBuilder",
                  partition_key |-> partition_key,
                  sort_key_condition |-> Nothing,
                  filter_expression |-> Nothing,
                  expression_values |-> 1,
                  index_name |-> Nothing,
                  limit |-> Nothing,
                  exclusive_start_key |-> Nothing,
                  scan_forward |-> Nothing]
    /\ heap = <<EmptyDict>>

\* ScanRequestBuilder.__init__
NewScanRequestBuilder ==
    /\ builder = [class |-> "ScanRequestBuilder",
                  filter_expression |-> Nothing,
                  expression_values |-> 1,
                  limit |-> Nothing,
                  exclusive_start_key |-> Nothing,
                  index_name |-> Nothing,
                  segment |-> Nothing,
                  total_segments |-> Nothing]
    /\ heap = <<EmptyDict>>

\* No scan is in play (the builder specifications).
NoScan ==
    /\ stream = <<>>
    /\ streamEnd = "eos"
    /\ consumed = 0
    /\ scanState = "Idle"
    /\ items = <<>>
    /\ returned = Nothing
    /\ raised = Nothing
    /\ scans = <<>>

InitBuilder ==
    /\ NoScan
    /\ NoClient
    /\ NoStore
    /\ \/ \E partition_key \in PartitionKeys : NewPutRequestBuilder(partition_key)
       \/ \E partition_key \in PartitionKeys : NewGetRequestBuilder(partition_key)
       \/ \E partition_key \in PartitionKeys : NewQueryRequestBuilder(partition_key)
       \/ NewScanRequestBuilder
    /\ calls = <<>>
    /\ request = Nothing
    /\ builtAt = 0
    /\ writes = 0

\* A mutator call `op(*args)` is made (and `return self`).
Called(op, args) ==
    /\ Len(calls) < MaxCalls
    /\ calls' = Append(calls, [op |-> op, args |-> args])
    /\ UNCHANGED <<request, builtAt, writes>>
    /\ UNCHANGED <<scanVars, clientVars, storeVars>>

---------------------------------------------------------------------------
\* PutRequestBuilder

PutWithSortKey(sort_key) ==
    /\ builder.class = "PutRequestBuilder"
    /\ builder' = [builder EXCEPT !.sort_key = Some(sort_key)]
    /\ UNCHANGED heap
    /\ Called("with_sort_key", <<sort_key>>)

\* Mutant: `self.attributes = {name: val}` (the other entries are dropped).
SetAttributeOnly(name, val) ==
    /\ builder.class = "PutRequestBuilder"
    /\ heap' = [heap EXCEPT ![builder.attributes] = DictSet(EmptyDict, name, val)]
    /\ UNCHANGED builder

\* `self.attributes[name] = val`
SetAttribute(name, val) ==
    /\ builder.class = "PutRequestBuilder"
    /\ heap' = [heap EXCEPT ![builder.attributes] = DictSet(@, name, val)]
    /\ UNCHANGED builder

PutWithString(name, value) ==
    /\ SetAttribute(name, [string_value |-> value])
    /\ Called("with_string", <<name, value>>)

\* What `str(float(value))` makes of a decimal text.
FloatText(value) ==
    CASE value = "30" -> "30.0"
      [] value = "30.0" -> "30.0"
      [] value = "030" -> "30.0"
      [] value = "0.10" -> "0.1"
      [] value = "12345678901234567890.5" -> "1.2345678901234567e+19"
      [] OTHER -> value

\* Mutant: the number passes through a float on its way into the builder.
PutWithNumberAsFloat(name, value) ==
    /\ SetAttribute(name, [number_value |-> FloatText(value)])
    /\ Called("with_number", <<name, value>>)

PutWithNumber(name, value) ==
    /\ SetAttribute(name, [number_value |-> value])
    /\ Called("with_number", <<name, value>>)

PutWithBool(name, value) ==
    /\ SetAttribute(name, [bool_value |-> value])
    /\ Called("with_bool", <<name, value>>)

PutWithBinary(name, value) ==
    /\ SetAttribute(name, [binary_value |-> value])
    /\ Called("with_binary", <<name, value>>)

PutWithCondition(condition) ==
    /\ builder.class = "PutRequestBuilder"
    /\ builder' = [builder EXCEPT !.condition = Some(condition)]
    /\ UNCHANGED heap
    /\ Called("with_condition", <<condition>>)

\* The pb.PutRequest message PutRequestBuilder.build assembles; its fields
\* are copies (a protobuf message owns its contents).
PutRequest(b, h) ==
    [partition_key |-> b.partition_key,
     item |-> [attributes |->
                  [name \in DOMAIN h[b.attributes] |-> PbValue(h[b.attributes][name])]],
     sort_key |-> b.sort_key,
     condition_expression |-> b.condition,
     expression_values |->
         [k \in DOMAIN h[b.expression_values] |-> PbValue(h[b.expression_values][k])]]

\* Mutant: build() hands the accumulated dicts over and starts afresh
\* (`self.attributes.clear()` and the like after assembling the request).
BuiltConsuming(r) ==
    /\ request' = Some(r)
    /\ builtAt' = Len(calls)
    /\ heap' = [i \in DOMAIN heap |-> EmptyDict]
    /\ UNCHANGED <<builder, calls, writes>>
    /\ UNCHANGED <<scanVars, clientVars, storeVars>>

\* build() returns `r` to the caller.
Built(r) ==
    /\ request' = Some(r)
    /\ builtAt' = Len(calls)
    /\ UNCHANGED <<builder, heap, calls, writes>>
    /\ UNCHANGED <<scanVars, clientVars, storeVars>>

PutBuild ==
    /\ builder.class = "PutRequestBuilder"
    /\ Built(PutRequest(builder, heap))

---------------------------------------------------------------------------
\* GetRequestBuilder

GetWithSortKey(sort_key) ==
    /\ builder.class = "GetRequestBuilder"
    /\ builder' = [builder EXCEPT !.sort_key = Some(sort_key)]
    /\ UNCHANGED heap
    /\ Called("with_sort_key", <<sort_key>>)

GetRequest(b) ==
    [partition_key |-> b.partition_key, sort_key |-> b.sort_key]

GetBuild ==
    /\ builder.class = "GetRequestBuilder"
    /\ Built(GetRequest(builder))

---------------------------------------------------------------------------
\* QueryRequestBuilder

\* Mutant: the new condition is merged into the dict already held
\* (`self.sort_key_condition.update(cond)`).
MergeSortKeyCondition(cond) ==
    /\ builder.class = "QueryRequestBuilder"
    /\ IF builder.sort_key_condition = Nothing
       THEN /\ heap' = Append(heap, cond)
            /\ builder' = [builder EXCEPT !.sort_key_condition = Some(Len(heap) + 1)]
       ELSE /\ heap' = [heap EXCEPT ![The(builder.sort_key_condition)] =
                           [k \in DOMAIN @ \cup DOMAIN cond |->
                               IF k \in DOMAIN cond THEN cond[k] ELSE @[k]]]
            /\ UNCHANGED builder

\* `self.sort_key_condition = cond`, cond a dict created by the call.
SetSortKeyCondition(cond) ==
    /\ builder.class = "QueryRequestBuilder"
    /\ heap' = Append(heap, cond)
    /\ builder' = [builder EXCEPT !.sort_key_condition = Some(Len(heap) + 1)]

QueryWithSortKeyEqual(value) ==
    /\ SetSortKeyCondition([equal_to |-> value])
    /\ Called("with_sort_key_equal", <<value>>)

QueryWithSortKeyBeginsWith(value) ==
    /\ SetSortKeyCondition([begins_with |-> value])
    /\ Called("with_sort_key_begins_with", <<value>>)

QueryWithSortKeyBetween(lower, upper) ==
    /\ SetSortKeyCondition([between |-> [lower |-> lower, upper |-> upper]])
    /\ Called("with_sort_key_between", <<lower, upper>>)

QueryWithLimit(limit) ==
    /\ builder.class = "QueryRequestBuilder"
    /\ builder' = [builder EXCEPT !.limit = Some(limit)]
    /\ UNCHANGED heap
    /\ Called("with_limit", <<limit>>)

QueryWithIndex(index_name) ==
    /\ builder.class = "QueryRequestBuilder"
    /\ builder' = [builder EXCEPT !.index_name = Some(index_name)]
    /\ UNCHANGED heap
    /\ Called("with_index", <<index_name>>)

QueryWithScanForward(forward) ==
    /\ builder.class = "QueryRequestBuilder"
    /\ builder' = [builder EXCEPT !.scan_forward = Some(forward)]
    /\ UNCHANGED heap
    /\ Called("with_scan_forward", <<forward>>)

\* The dict QueryRequestBuilder.build returns: a new dict whose entries are
\* the builder's attribute values themselves (the dicts by reference).
QueryRequest(b) ==
    [partition_key |-> b.partition_key,
     sort_key_condition |-> b.sort_key_condition,
     filter_expression |-> b.filter_expression,
     expression_values |-> b.expression_values,
     index_name |-> b.index_name,
     limit |-> b.limit,
     exclusive_start_key |-> b.exclusive_start_key,
     scan_forward |-> b.scan_forward]

QueryBuild ==
    /\ builder.class = "QueryRequestBuilder"
    /\ Built(QueryRequest(builder))

---------------------------------------------------------------------------
\* ScanRequestBuilder

ScanWithLimit(limit) ==
    /\ builder.class = "ScanRequestBuilder"
    /\ builder' = [builder EXCEPT !.limit = Some(limit)]
    /\ UNCHANGED heap
    /\ Called("with_limit", <<limit>>)

\* Mutant: the total is kept once set (`if self.total_segments is None:`).
ScanWithSegmentTotalOnce(segment, total_segments) ==
    /\ builder.class = "ScanRequestBuilder"
    /\ builder' = [builder EXCEPT
                      !.segment = Some(segment),
                      !.total_segments = IF @ = Nothing THEN Some(total_segments) ELSE @]
    /\ UNCHANGED heap
    /\ Called("with_segment", <<segment, total_segments>>)

ScanWithSegment(segment, total_segments) ==
    /\ builder.class = "ScanRequestBuilder"
    /\ builder' = [builder EXCEPT !.segment = Some(segment),
                                  !.total_segments = Some(total_segments)]
    /\ UNCHANGED heap
    /\ Called("with_segment", <<segment, total_segments>>)

\* The dict ScanRequestBuilder.build returns.
ScanRequest(b) ==
    [filter_expression |-> b.filter_expression,
     expression_values |-> b.expression_values,
     limit |-> b.limit,
     exclusive_start_key |-> b.exclusive_start_key,
     index_name |-> b.index_name,
     segment |-> b.segment,
     total_segments |-> b.total_segments]

ScanBuild ==
    /\ builder.class = "ScanRequestBuilder"
    /\ Built(ScanRequest(builder))

---------------------------------------------------------------------------
NextBuilder ==
    \/ \E sort_key \in SortKeys : PutWithSortKey(sort_key)
    \/ \E name \in AttrNames, value \in StringValues : PutWithString(name, value)
    \/ \E name \in AttrNames, value \in NumberValues : PutWithNumber(name, value)
    \/ \E name \in AttrNames, value \in BoolValues : PutWithBool(name, value)
    \/ \E name \in AttrNames, value \in BinaryValues : PutWithBinary(name, value)
    \/ \E condition \in Conditions : PutWithCondition(condition)
    \/ PutBuild
    \/ \E sort_key \in SortKeys : GetWithSortKey(sort_key)
    \/ GetBuild
    \/ \E value \in SortKeys : QueryWithSortKeyEqual(value)
    \/ \E value \in SortKeys : QueryWithSortKeyBeginsWith(value)
    \/ \E lower \in SortKeys, upper \in SortKeys : QueryWithSortKeyBetween(lower, upper)
    \/ \E limit \in Limits : QueryWithLimit(limit)
    \/ \E index_name \in IndexNames : QueryWithIndex(index_name)
    \/ \E forward \in BOOLEAN : QueryWithScanForward(forward)
    \/ QueryBuild
    \/ \E limit \in Limits : ScanWithLimit(limit)
    \/ \E segment \in SegmentNumbers, total_segments \in SegmentTotals :
          ScanWithSegment(segment, total_segments)
    \/ ScanBuild

SpecBuilder == InitBuilder /\ [][NextBuilder]_vars

(***************************************************************************)
(* The caller's writes into the request build() returned                   *)
(***************************************************************************)
CallerWrote ==
    /\ request # Nothing
    /\ writes < MaxWrites
    /\ writes' = writes + 1
    /\ UNCHANGED <<builder, calls, builtAt>>
    /\ UNCHANGED <<scanVars, clientVars, storeVars>>

IsDictRequest == builder.class \in {"QueryRequestBuilder", "ScanRequestBuilder"}

IsMessageRequest == builder.class \in {"PutRequestBuilder", "GetRequestBuilder"}

\* `request["limit"] = limit` on the dict of a query or scan request.
DictRequestSetLimit(limit) ==
    /\ IsDictRequest
    /\ CallerWrote
    /\ request' = Some([The(request) EXCEPT !.limit = Some(limit)])
    /\ UNCHANGED heap

\* `request["expression_values"][name] = value`
DictRequestBindValue(name, value) ==
    /\ IsDictRequest
    /\ CallerWrote
    /\ heap' = [heap EXCEPT ![The(request).expression_values] = DictSet(@, name, value)]
    /\ UNCHANGED request

\* `request["sort_key_condition"]["equal_to"] = value`
DictRequestSetSortKeyCondition(value) ==
    /\ builder.class = "QueryRequestBuilder"
    /\ CallerWrote
    /\ The(request).sort_key_condition # Nothing
    /\ heap' = [heap EXCEPT ![The(The(request).sort_key_condition)] =
                   DictSet(@, "equal_to", value)]
    /\ UNCHANGED request

\* `request.sort_key = sort_key` on a pb.PutRequest or pb.GetRequest.
MessageSetSortKey(sort_key) ==
    /\ IsMessageRequest
    /\ CallerWrote
    /\ request' = Some([The(request) EXCEPT !.sort_key = Some(sort_key)])
    /\ UNCHANGED heap

\* `request.expression_values[name].CopyFrom(value)` on a pb.PutRequest.
MessageBindValue(name, value) ==
    /\ builder.class = "PutRequestBuilder"
    /\ CallerWrote
    /\ request' = Some([The(request) EXCEPT
                          !.expression_values = DictSet(@, name, PbValue(value))])
    /\ UNCHANGED heap

NextCaller ==
    \/ \E limit \in Limits : DictRequestSetLimit(limit)
    \/ \E name \in PlaceholderNames, value \in BoundValues : DictRequestBindValue(name, value)
    \/ \E value \in SortKeys : DictRequestSetSortKeyCondition(value)
    \/ \E sort_key \in SortKeys : MessageSetSortKey(sort_key)
    \/ \E name \in PlaceholderNames, value \in BoundValues : MessageBindValue(name, value)

SpecCaller == InitBuilder /\ [][NextBuilder \/ NextCaller]_vars

(***************************************************************************)
(* Properties of the builders                                              *)
(***************************************************************************)
\* A dict reference replaced by the dict it refers to.
Deref(slot, h) == IF slot = Nothing THEN Nothing ELSE Some(h[The(slot)])

\* The contents of the builder's attributes, dicts followed.
BuilderView(b, h) ==
    CASE b.class = "PutRequestBuilder" ->
            [b EXCEPT !.attributes = h[@], !.expression_values = h[@]]
      [] b.class = "GetRequestBuilder" -> b
      [] b.class = "QueryRequestBuilder" ->
            [b EXCEPT !.sort_key_condition = Deref(@, h), !.expression_values = h[@]]
      [] b.class = "ScanRequestBuilder" ->
            [b EXCEPT !.expression_values = h[@]]

\* The contents of a request built by a builder of class cls, dicts followed.
RequestView(cls, r, h) ==
    CASE cls = "QueryRequestBuilder" ->
            [r EXCEPT !.sort_key_condition = Deref(@, h), !.expression_values = h[@]]
      [] cls = "ScanRequestBuilder" ->
            [r EXCEPT !.expression_values = h[@]]
      [] OTHER -> r

\* The request the caller holds, as it reads now.
Held == RequestView(builder.class, The(request), heap)

\* The mutator calls made before the held request was built.
CallsBuilt == SubSeq(calls, 1, builtAt)

\* Index in log of the last call satisfying Test (0: there is none).
LastCallIndex(log, Test(_)) ==
    LET hits == {i \in 1..Len(log) : Test(log[i])}
    IN  IF hits = {} THEN 0 ELSE CHOOSE i \in hits : \A j \in hits : j <= i

\* The n-th argument of the last call of mutator op in log, if any.
LastArg(log, op, n) ==
    LET IsOp(c) == c.op = op
        i == LastCallIndex(log, IsOp)
    IN  IF i = 0 THEN Nothing ELSE Some(log[i].args[n])

AttrOps == {"with_string", "with_number", "with_bool", "with_binary"}

ValueField(op) ==
    CASE op = "with_string" -> "string_value"
      [] op = "with_number" -> "number_value"
      [] op = "with_bool" -> "bool_value"
      [] op = "with_binary" -> "binary_value"

\* The item a log of attribute calls describes: one entry per name set,
\* holding the type and value of the last call that set the name.
LastAttributes(log) ==
    LET names == {log[i].args[1] : i \in {j \in 1..Len(log) : log[j].op \in AttrOps}}
    IN  [name \in names |->
            LET Sets(c) == c.op \in AttrOps /\ c.args[1] = name
                c == log[LastCallIndex(log, Sets)]
            IN  [f \in {ValueField(c.op)} |-> c.args[2]]]

SortKeyOps == {"with_sort_key_equal", "with_sort_key_begins_with", "with_sort_key_between"}

\* The sort-key condition of the last sort-key call in log, if any.
LastSortKeyCondition(log) ==
    LET IsSortKeyOp(c) == c.op \in SortKeyOps
        i == LastCallIndex(log, IsSortKeyOp)
    IN  IF i = 0 THEN Nothing
        ELSE CASE log[i].op = "with_sort_key_equal" ->
                     Some([equal_to |-> log[i].args[1]])
               [] log[i].op = "with_sort_key_begins_with" ->
                     Some([begins_with |-> log[i].args[1]])
               [] log[i].op = "with_sort_key_between" ->
                     Some([between |-> [lower |-> log[i].args[1],
                                        upper |-> log[i].args[2]]])

\* C8: every built request carries, for each field a mutator writes, the
\* value of the last call of that mutator made before build() (unset if
\* there was none), and its item holds each attribute name set through
\* with_string/with_number/with_bool/with_binary exactly once, with the
\* type and value of the last call for that name.
C8_BuildReflectsLastWrite ==
    request # Nothing =>
        CASE builder.class = "PutRequestBuilder" ->
                /\ Held.sort_key = LastArg(CallsBuilt, "with_sort_key", 1)
                /\ Held.condition_expression = LastArg(CallsBuilt, "with_condition", 1)
                /\ Held.item.attributes = LastAttributes(CallsBuilt)
          [] builder.class = "GetRequestBuilder" ->
                Held.sort_key = LastArg(CallsBuilt, "with_sort_key", 1)
          [] builder.class = "QueryRequestBuilder" ->
                /\ Held.sort_key_condition = LastSortKeyCondition(CallsBuilt)
                /\ Held.limit = LastArg(CallsBuilt, "with_limit", 1)
                /\ Held.index_name = LastArg(CallsBuilt, "with_index", 1)
                /\ Held.scan_forward = LastArg(CallsBuilt, "with_scan_forward", 1)
          [] builder.class = "ScanRequestBuilder" ->
                /\ Held.limit = LastArg(CallsBuilt, "with_limit", 1)
                /\ Held.segment = LastArg(CallsBuilt, "with_segment", 1)
                /\ Held.total_segments = LastArg(CallsBuilt, "with_segment", 2)

\* C8 witness: a put request built after one attribute name was set twice,
\* by two different attribute mutators.
C8_Witness ==
    /\ builder.class = "PutRequestBuilder"
    /\ request # Nothing
    /\ \E i, j \in 1..builtAt :
          /\ i < j
          /\ calls[i].op \in AttrOps
          /\ calls[j].op \in AttrOps
          /\ calls[i].op # calls[j].op
          /\ calls[i].args[1] = calls[j].args[1]
          /\ DOMAIN Held.item.attributes = {calls[j].args[1]}

\* C9: a QueryRequestBuilder holds no sort-key condition before the first
\* sort-key call and afterwards exactly the one condition of the last such
\* call (a dict with a single key), and a built query request carries exactly
\* the condition of the last sort-key call made before build().
C9_SingleSortKeyConditionLastWins ==
    builder.class = "QueryRequestBuilder" =>
        /\ Deref(builder.sort_key_condition, heap) = LastSortKeyCondition(calls)
        /\ builder.sort_key_condition # Nothing =>
              Cardinality(DOMAIN heap[The(builder.sort_key_condition)]) = 1
        /\ request # Nothing =>
              /\ Held.sort_key_condition = LastSortKeyCondition(CallsBuilt)
              /\ Held.sort_key_condition # Nothing =>
                    Cardinality(DOMAIN The(Held.sort_key_condition)) = 1

\* C9 witness: a query request built after two sort-key calls of different
\* kinds, the later one being with_sort_key_equal.
C9_Witness ==
    /\ builder.class = "QueryRequestBuilder"
    /\ request # Nothing
    /\ \E i, j \in 1..builtAt :
          /\ i < j
          /\ calls[i].op = "with_sort_key_between"
          /\ calls[j].op = "with_sort_key_equal"
          /\ Held.sort_key_condition = Some([equal_to |-> calls[j].args[1]])

\* a < b in the lexicographic order of bytes values.
RECURSIVE BytesLess(_, _)
BytesLess(a, b) ==
    IF b = <<>> THEN FALSE
    ELSE IF a = <<>> THEN TRUE
    ELSE IF a[1] # b[1] THEN a[1] < b[1]
    ELSE BytesLess(Tail(a), Tail(b))

\* The placeholders an expression references.
Placeholders(expression) ==
    {expression[i] : i \in DOMAIN expression} \cap PlaceholderNames

\* C4: every scan request returned by build() that carries a segment
\* descriptor satisfies 0 <= segment < total_segments (build() fails with
\* ValidationError on any other descriptor).
C4_BuiltScanSegmentWithinTotal ==
    (/\ builder.class = "ScanRequestBuilder"
     /\ request # Nothing
     /\ Held.segment # Nothing) =>
        /\ 0 <= The(Held.segment)
        /\ The(Held.segment) < The(Held.total_segments)

\* C5: no request returned by the build() of a builder that carries a
\* partition key (put, get, query) has an empty partition key.
C5_BuiltPartitionKeyNonEmpty ==
    (/\ builder.class \in {"PutRequestBuilder", "GetRequestBuilder", "QueryRequestBuilder"}
     /\ request # Nothing) =>
        Held.partition_key # <<>>

\* C6: no query request returned by build() carries a Between sort-key
\* condition whose lower bound is greater than its upper bound.
C6_BuiltBetweenNotInverted ==
    (/\ builder.class = "QueryRequestBuilder"
     /\ request # Nothing
     /\ Held.sort_key_condition # Nothing
     /\ "between" \in DOMAIN The(Held.sort_key_condition)) =>
        LET range == The(Held.sort_key_condition).between
        IN  ~BytesLess(range.upper, range.lower)

\* C7: every put request returned by build() has an expression value bound
\* for each placeholder its condition expression references.
C7_BuiltPlaceholdersBound ==
    (/\ builder.class = "PutRequestBuilder"
     /\ request # Nothing
     /\ Held.condition_expression # Nothing) =>
        Placeholders(The(Held.condition_expression)) \subseteq DOMAIN Held.expression_values

\* C10: a built request shares no state with its builder: a mutator call
\* made after build() leaves the request the caller holds unchanged, and a
\* write the caller makes into the request it holds leaves the contents of
\* the builder's attributes (hence every later built request) unchanged.
C10_BuiltRequestSharesNoState ==
    [][/\ (calls' # calls /\ request # Nothing) =>
              RequestView(builder.class, The(request'), heap') = Held
       /\ (writes' # writes) =>
              BuilderView(builder', heap') = BuilderView(builder, heap)]_vars

\* C21: a build() call makes no remote call and leaves every attribute of
\* the builder, dict contents included, as it was; a build() made when no
\* mutator was called since the previous build() returns a request equal to
\* the previous one.
C21_BuildIsPure ==
    [][(calls' = calls /\ writes' = writes) =>
          /\ builder' = builder
          /\ BuilderView(builder', heap') = BuilderView(builder, heap)
          /\ clientVars' = clientVars
          /\ (request # Nothing /\ builtAt = Len(calls)) =>
                RequestView(builder.class, The(request'), heap') = Held]_vars

\* A put request was built from a builder holding attributes, and the
\* builder holds them still.
C21_Witness ==
    /\ builder.class = "PutRequestBuilder"
    /\ request # Nothing
    /\ builtAt = Len(calls)
    /\ Cardinality(DOMAIN heap[builder.attributes]) = 2
    /\ DOMAIN Held.item.attributes = DOMAIN heap[builder.attributes]
    /\ builder.condition # Nothing

\* The attributes of the builder the mutator `op` names.
Touched(op) ==
    CASE op \in AttrOps -> {"attributes"}
      [] op = "with_sort_key" -> {"sort_key"}
      [] op = "with_condition" -> {"condition"}
      [] op \in SortKeyOps -> {"sort_key_condition"}
      [] op = "with_limit" -> {"limit"}
      [] op = "with_index" -> {"index_name"}
      [] op = "with_scan_forward" -> {"scan_forward"}
      [] op = "with_segment" -> {"segment", "total_segments"}

\* C28: a mutator call leaves every attribute of the builder other than the
\* one it names as it was (with_segment names the two of the segment
\* descriptor), the partition key and the class among them; a call setting
\* an attribute of the item changes the entry of the given name only.
C28_MutatorChangesOnlyItsField ==
    [][calls' # calls =>
          LET call == calls'[Len(calls')]
              before == BuilderView(builder, heap)
              after == BuilderView(builder', heap')
          IN  /\ DOMAIN after = DOMAIN before
              /\ \A f \in DOMAIN before \ Touched(call.op) : after[f] = before[f]
              /\ call.op \in AttrOps =>
                    /\ DOMAIN after.attributes =
                           DOMAIN before.attributes \cup {call.args[1]}
                    /\ \A name \in DOMAIN before.attributes \ {call.args[1]} :
                          after.attributes[name] = before.attributes[name]]_vars

\* A put builder holds a sort key, a condition and two attributes, each set
\* by a call of its own, the attribute set last next to the one set before.
C28_Witness ==
    /\ builder.class = "PutRequestBuilder"
    /\ builder.sort_key # Nothing
    /\ Len(calls) = 3
    /\ calls[1].op = "with_sort_key"
    /\ calls[2].op = "with_number"
    /\ calls[3].op = "with_string"
    /\ calls[2].args[1] # calls[3].args[1]
    /\ DOMAIN heap[builder.attributes] = {"name", "age"}

\* C29: a ScanRequestBuilder holds segment and total_segments both unset
\* before the first with_segment call and afterwards both set, to the two
\* arguments of the last with_segment call; a scan request it built carries
\* them both unset, or both set to the arguments of the last with_segment
\* call made before that build().
C29_SegmentPairFromOneCall ==
    builder.class = "ScanRequestBuilder" =>
        /\ (builder.segment = Nothing) <=> (builder.total_segments = Nothing)
        /\ builder.segment = LastArg(calls, "with_segment", 1)
        /\ builder.total_segments = LastArg(calls, "with_segment", 2)
        /\ request # Nothing =>
              /\ (Held.segment = Nothing) <=> (Held.total_segments = Nothing)
              /\ Held.segment = LastArg(CallsBuilt, "with_segment", 1)
              /\ Held.total_segments = LastArg(CallsBuilt, "with_segment", 2)

\* A scan request built after two with_segment calls that differ in both
\* arguments carries the pair of the second.
C29_Witness ==
    /\ builder.class = "ScanRequestBuilder"
    /\ request # Nothing
    /\ builtAt = 2
    /\ calls[1] = [op |-> "with_segment", args |-> <<4, 0>>]
    /\ calls[2] = [op |-> "with_segment", args |-> <<0, 4>>]
    /\ Held.segment = Some(0)
    /\ Held.total_segments = Some(4)

(***************************************************************************)
(* Number attributes of a put request: with_number over decimal texts that *)
(* a float would not keep.                                                 *)
(***************************************************************************)
DecimalTexts == {"30", "30.0", "030", "0.10", "12345678901234567890.5"}

InitNumber ==
    /\ NoScan
    /\ NoClient
    /\ NoStore
    /\ NewPutRequestBuilder(<<1>>)
    /\ calls = <<>>
    /\ request = Nothing
    /\ builtAt = 0
    /\ writes = 0

NextNumber ==
    \/ \E name \in AttrNames, value \in DecimalTexts : PutWithNumber(name, value)
    \/ \E name \in AttrNames : PutWithString(name, "30")
    \/ PutBuild

SpecNumber == InitNumber /\ [][NextNumber]_vars

\* The text of the last with_number call for `name` in log, when the last
\* call that set `name` was a with_number call.
LastNumberText(log, name) ==
    LET Sets(c) == c.op \in AttrOps /\ c.args[1] = name
        i == LastCallIndex(log, Sets)
    IN  IF i > 0 /\ log[i].op = "with_number" THEN Some(log[i].args[2]) ELSE Nothing

\* C22: the attribute set by with_number(name, t) is held by the builder as
\* a number value carrying the text t itself, and a request built then
\* carries attribute `name` as a Number with exactly the text t.
C22_NumberTextPreserved ==
    \A name \in AttrNames :
        /\ LastNumberText(calls, name) # Nothing =>
              heap[builder.attributes][name] =
                  [number_value |-> The(LastNumberText(calls, name))]
        /\ (request # Nothing /\ LastNumberText(CallsBuilt, name) # Nothing) =>
              /\ name \in DOMAIN Held.item.attributes
              /\ Held.item.attributes[name] =
                     [number_value |-> The(LastNumberText(CallsBuilt, name))]

\* A request was built with age "30", set after age had been "30.0", next
\* to a number of more digits than a float keeps.
C22_Witness ==
    /\ request # Nothing
    /\ builtAt = 3
    /\ calls[1] = [op |-> "with_number", args |-> <<"age", "30.0">>]
    /\ calls[2] = [op |-> "with_number", args |-> <<"age", "30">>]
    /\ calls[3] = [op |-> "with_number", args |-> <<"name", "12345678901234567890.5">>]
    /\ Held.item.attributes.age = [number_value |-> "30"]
    /\ Held.item.attributes.name = [number_value |-> "12345678901234567890.5"]

(***************************************************************************)
(* Properties of the scan aggregation                                      *)
(***************************************************************************)
HasErrorChunk(s) == \E i \in 1..Len(s) : s[i].error # ""

\* Position of the first chunk of s with a non-empty error (0: there is none).
FirstErrorIndex(s) ==
    IF HasErrorChunk(s)
    THEN CHOOSE i \in 1..Len(s) :
            /\ s[i].error # ""
            /\ \A j \in 1..(i - 1) : s[j].error = ""
    ELSE 0

\* items(c1) ++ ... ++ items(cn)
RECURSIVE ConcatItems(_)
ConcatItems(s) == IF s = <<>> THEN <<>> ELSE s[1].items \o ConcatItems(Tail(s))

ScanTerminated == scanState \in {"Completed", "Failed"}

\* C1: when some chunk of the stream carries a non-empty error E (E the error
\* of the first such chunk), scan never returns a value, and it ends by
\* raising its own scan error carrying E: none of the items received before
\* the error chunk, nor the error chunk's own items, reach the caller.
C1_ErrorChunkRaisesAndReturnsNoItems ==
    HasErrorChunk(stream) =>
        /\ returned = Nothing
        /\ ScanTerminated =>
              /\ scanState = "Failed"
              /\ raised # Nothing
              /\ The(raised).type = "Exception"
              /\ The(raised).message = "Scan error: " \o stream[FirstErrorIndex(stream)].error

\* C1 witness: the scan failed on an error chunk after accumulating items,
\* and the error chunk itself carried items.
C1_Witness ==
    /\ scanState = "Failed"
    /\ raised # Nothing
    /\ The(raised).type = "Exception"
    /\ items # <<>>
    /\ stream[consumed].items # <<>>
    /\ returned = Nothing

\* C2: for a stream of error-free chunks followed by end-of-stream, a
\* terminated scan has returned exactly the concatenation of the chunks'
\* items in arrival order (the empty sequence for a stream of zero chunks)
\* and raised nothing.
C2_ReturnsConcatenationInOrder ==
    (~HasErrorChunk(stream) /\ streamEnd = "eos" /\ ScanTerminated) =>
        /\ scanState = "Completed"
        /\ raised = Nothing
        /\ returned = Some(ConcatItems(stream))

\* C2 witness: a completed scan over at least two chunks with different,
\* non-empty item sequences.
C2_Witness ==
    /\ scanState = "Completed"
    /\ Len(stream) >= 2
    /\ stream[1].items # <<>>
    /\ stream[2].items # <<>>
    /\ stream[1].items # stream[2].items
    /\ returned = Some(stream[1].items \o stream[2].items
                         \o ConcatItems(SubSeq(stream, 3, Len(stream))))

\* C3: scan never takes from the stream a chunk positioned after the first
\* chunk with a non-empty error, and a scan failed on an error chunk has
\* taken exactly the chunks up to and including it.
C3_FailFastNoChunkReadAfterError ==
    HasErrorChunk(stream) =>
        /\ consumed <= FirstErrorIndex(stream)
        /\ scanState = "Failed" => consumed = FirstErrorIndex(stream)

\* C3 witness: the scan has failed on an error chunk and chunks behind it
\* are left unread.
C3_Witness ==
    /\ scanState = "Failed"
    /\ raised # Nothing
    /\ The(raised).type = "Exception"
    /\ consumed < Len(stream)

\* The failed scan stopped on a chunk carrying an error (otherwise its
\* iterator raised).
FailedOnErrorChunk ==
    /\ consumed >= 1
    /\ HasError(stream[consumed])

\* C19: a scan that failed on an error chunk has raised an error of another
\* class than a scan that failed on a transport failure of the stream: the
\* class of the raised error says which of the two happened.
C19_ScanErrorKindTellsCause ==
    scanState = "Failed" =>
        /\ raised # Nothing
        /\ FailedOnErrorChunk => The(raised).type = "Exception"
        /\ ~FailedOnErrorChunk => The(raised).type = "grpc.RpcError"
        /\ "Exception" # RpcError.type

\* The stream broke after items had been received: the scan raised the
\* transport's error.
C19_Witness ==
    /\ scanState = "Failed"
    /\ ~FailedOnErrorChunk
    /\ items # <<>>
    /\ raised = Some(RpcError)

\* The parts of the scan state machine that do not concern the path: a
\* terminated call changes nothing more, a call never has both returned and
\* raised, and it is Completed only at end-of-stream of a stream without
\* error chunk, all of whose chunks it has taken.
ScanStepSound ==
    /\ ScanTerminated => UNCHANGED scanVars
    /\ ~(returned' # Nothing /\ raised' # Nothing)
    /\ scanState' = "Completed" =>
          /\ streamEnd = "eos"
          /\ consumed' = Len(stream)
          /\ ~HasErrorChunk(stream)
          /\ returned' # Nothing
    /\ scanState' = "Failed" => raised' # Nothing

C26_ScanTerminates ==
    /\ <>ScanTerminated
    /\ [][/\ consumed' \in {consumed, consumed + 1}
          /\ consumed' <= Len(stream)
          /\ (consumed = Len(stream) /\ streamEnd = "eos" /\ ~ScanTerminated) =>
                scanState' = "Completed"]_vars

\* A scan has completed over a stream of three chunks, the last of them
\* empty: it took each of them.
C26_Witness ==
    /\ scanState = "Completed"
    /\ Len(stream) = 3
    /\ consumed = 3
    /\ stream[3].items = <<>>
    /\ returned = Some(stream[1].items \o stream[2].items)

(***************************************************************************)
(* Client (client.py): connect, the unary operations, scan, close and the  *)
(* context manager, used by the threads of Callers over one grpc channel.  *)
(* The channel and the server behind it are the environment: a channel     *)
(* made by grpc.insecure_channel connects on its first RPC, and            *)
(* Channel.close() terminates the RPCs active on it and may be repeated.   *)
(***************************************************************************)
\* Most explicit close() calls.
MaxCloses == 2

UnaryOps ==
    {"put", "get", "delete", "query", "batch_get", "batch_write",
     "transact_get", "transact_write", "update", "execute_statement"}

\* The stub method named in the body of each client method.
ClientMethods ==
    [put |-> "Put", get |-> "Get", delete |-> "Delete", query |-> "Query",
     scan |-> "Scan", batch_get |-> "BatchGet", batch_write |-> "BatchWrite",
     transact_get |-> "TransactGet", transact_write |-> "TransactWrite",
     update |-> "Update", execute_statement |-> "ExecuteStatement"]

\* Mutant: put calls the stub's Delete.
StubMethodPutDeletes(op) == IF op = "put" THEN "Delete" ELSE ClientMethods[op]

\* Mutant: delete calls the stub's Get.
StubMethodDeleteGets(op) == IF op = "delete" THEN "Get" ELSE ClientMethods[op]

\* The stub method each client method calls.
StubMethod(op) == ClientMethods[op]

\* The request object a thread passes to the client: each thread owns its own.
RequestOf(c) == <<"request", c>>

\* The response the service gives to a request.
Reply(method, req) == [method |-> method, to |-> req]

\* The errors the channel raises.
ConnectFailed == [type |-> "grpc.RpcError", message |-> "UNAVAILABLE: failed to connect"]
StatusError == [type |-> "grpc.RpcError", message |-> "FAILED_PRECONDITION"]
Cancelled == [type |-> "grpc.RpcError", message |-> "CANCELLED: channel closed"]
ClosedChannelError == [type |-> "ValueError", message |-> "Cannot invoke RPC on closed channel!"]

\* Client.connect: grpc.insecure_channel(address), KeystoneDBStub(channel),
\* cls(channel, stub).  No RPC is made, so nothing is sent to the address.
Connect ==
    /\ channel = [connected |-> FALSE, closed |-> FALSE, releases |-> 0]
    /\ clientChannel = Some("channel")

InitClient ==
    /\ NoScan
    /\ NoBuilder
    /\ NoStore
    /\ server \in {"up", "down"}
    /\ Connect
    /\ callers = [c \in Callers |-> IdleCaller]
    /\ scope \in {"none", "inside"}
    /\ closeCalls = 0
    /\ errorPath = "none"

NotClient == UNCHANGED <<scanVars, builderVars, storeVars>>

\* Thread c calls client.<op>(request).
Invoke(c, op) ==
    /\ callers[c].pc = "idle"
    /\ callers' = [callers EXCEPT ![c] =
                      [IdleCaller EXCEPT !.pc = "entered", !.op = op,
                                         !.request = Some(RequestOf(c))]]
    /\ UNCHANGED <<server, channel, clientChannel, scope, closeCalls, errorPath>>
    /\ NotClient

\* Mutant: the request is kept in an attribute of the client shared by the
\* threads, and the stub is given whatever it holds.
OutgoingShared(c) ==
    LET busy == {d \in Callers : callers[d].pc = "entered"}
    IN  The(callers[CHOOSE d \in busy : \A e \in busy : e = "c2" => d = "c2"].request)

\* Mutant: the operations of the request are sent last first.
OutgoingReversed(c) ==
    LET r == The(callers[c].request)
        n == Len(r.operations)
    IN  [r EXCEPT !.operations = [i \in 1..n |-> r.operations[n + 1 - i]]]

\* The argument of `self._stub.<Method>(request)`: the method's own parameter.
Outgoing(c) == The(callers[c].request)

\* `self._stub.<Method>(request)` is called: the RPC starts, unless the
\* channel is closed, when the stub raises at once.
Send(c) ==
    /\ callers[c].pc = "entered"
    /\ callers' = [callers EXCEPT ![c] =
          [@ EXCEPT !.pc = "in_call",
                    !.stubCalls = @ + 1,
                    !.rpc = IF channel.closed
                            THEN Some([method |-> StubMethod(callers[c].op),
                                       request |-> Outgoing(c),
                                       status |-> "failed",
                                       result |-> Some(ClosedChannelError)])
                            ELSE Some([method |-> StubMethod(callers[c].op),
                                       request |-> Outgoing(c),
                                       status |-> "pending",
                                       result |-> Nothing])]]
    /\ UNCHANGED <<server, channel, clientChannel, scope, closeCalls, errorPath>>
    /\ NotClient

Pending(c) ==
    /\ callers[c].rpc # Nothing
    /\ The(callers[c].rpc).status = "pending"

\* The RPC of c ends in the channel with the given status and result.
RpcEnds(c, status, result) ==
    /\ callers' = [callers EXCEPT ![c].rpc =
                      Some([The(@) EXCEPT !.status = status, !.result = Some(result)])]
    /\ UNCHANGED <<server, clientChannel, scope, closeCalls, errorPath>>
    /\ NotClient

\* Environment: nothing serves the address, the connection attempt fails.
ServeConnectFailure(c) ==
    /\ Pending(c)
    /\ server = "down"
    /\ UNCHANGED channel
    /\ RpcEnds(c, "failed", ConnectFailed)

\* Environment: the service answers the request it received.
ServeReply(c) ==
    /\ Pending(c)
    /\ server = "up"
    /\ channel' = [channel EXCEPT !.connected = TRUE]
    /\ LET rpc == The(callers[c].rpc)
       IN  RpcEnds(c, "replied", Reply(rpc.method, rpc.request))

\* Environment: the connection is lost during the call.
ServeTransportFailure(c) ==
    /\ Pending(c)
    /\ server = "up"
    /\ channel' = [channel EXCEPT !.connected = TRUE]
    /\ RpcEnds(c, "failed", RpcError)

\* Environment: the service rejects a unary request (e.g. a failed condition).
ServeApplicationError(c) ==
    /\ Pending(c)
    /\ server = "up"
    /\ The(callers[c].rpc).method # "Scan"
    /\ channel' = [channel EXCEPT !.connected = TRUE]
    /\ RpcEnds(c, "failed", StatusError)

\* Environment: the scan stream delivers a chunk with a non-empty error.
ServeErrorChunk(c, response) ==
    /\ Pending(c)
    /\ server = "up"
    /\ The(callers[c].rpc).method = "Scan"
    /\ HasError(response)
    /\ channel' = [channel EXCEPT !.connected = TRUE]
    /\ RpcEnds(c, "error_chunk", response)

Replied(c, status) ==
    /\ callers[c].pc = "in_call"
    /\ The(callers[c].rpc).status = status

\* The operation of c returns `value` to its caller.
Return(c, value) ==
    /\ callers' = [callers EXCEPT ![c].pc = "returned", ![c].outcome = Some(value)]
    /\ UNCHANGED <<server, channel, clientChannel, scope, closeCalls, errorPath>>
    /\ NotClient

\* Mutant: an error handler drops the channel (`self._channel = None`).
RaiseAndDropChannel(c, exc) ==
    /\ callers' = [callers EXCEPT ![c].pc = "raised", ![c].outcome = Some(exc)]
    /\ errorPath' = IF errorPath = "none" THEN "raised" ELSE errorPath
    /\ clientChannel' = Nothing
    /\ UNCHANGED <<server, channel, scope, closeCalls>>
    /\ UNCHANGED <<scanVars, builderVars, storeVars>>

\* The exception `exc` leaves the operation of c.
Raise(c, exc) ==
    /\ callers' = [callers EXCEPT ![c].pc = "raised", ![c].outcome = Some(exc)]
    /\ errorPath' = IF errorPath = "none" THEN "raised" ELSE errorPath
    /\ UNCHANGED <<server, channel, clientChannel, scope, closeCalls>>
    /\ NotClient

\* `return self._stub.<Method>(request)`: the stub returned a response.
UnaryReturn(c) ==
    /\ callers[c].op \in UnaryOps
    /\ Replied(c, "replied")
    /\ Return(c, The(The(callers[c].rpc).result))

\* Mutant: a failed call is issued once more before the error is let out.
UnaryRetry(c) ==
    /\ callers[c].op \in UnaryOps
    /\ Replied(c, "failed")
    /\ IF callers[c].stubCalls < 2 /\ ~channel.closed
       THEN /\ callers' = [callers EXCEPT
                              ![c].stubCalls = @ + 1,
                              ![c].rpc = Some([The(@) EXCEPT !.status = "pending",
                                                             !.result = Nothing])]
            /\ UNCHANGED <<server, channel, clientChannel, scope, closeCalls, errorPath>>
            /\ UNCHANGED <<scanVars, builderVars, storeVars>>
       ELSE Raise(c, The(The(callers[c].rpc).result))

\* `return self._stub.<Method>(request)`: the stub raised; the exception
\* propagates out of the method as it is.
UnaryRaise(c) ==
    /\ callers[c].op \in UnaryOps
    /\ Replied(c, "failed")
    /\ Raise(c, The(The(callers[c].rpc).result))

\* Client.scan over a stream without error chunk: `return items`.
ScanReturn(c) ==
    /\ callers[c].op = "scan"
    /\ Replied(c, "replied")
    /\ Return(c, The(The(callers[c].rpc).result))

\* Client.scan meets a chunk with an error: `raise Exception(...)`.
ScanRaiseErrorChunk(c) ==
    /\ callers[c].op = "scan"
    /\ Replied(c, "error_chunk")
    /\ Raise(c, ScanException(The(The(callers[c].rpc).result)))

\* Client.scan: the response iterator raises.
ScanRaiseTransport(c) ==
    /\ callers[c].op = "scan"
    /\ Replied(c, "failed")
    /\ Raise(c, The(The(callers[c].rpc).result))

\* The thread goes on after the operation (a raised exception was caught).
Finish(c) ==
    /\ callers[c].pc \in {"returned", "raised"}
    /\ callers' = [callers EXCEPT ![c] = IdleCaller]
    /\ UNCHANGED <<server, channel, clientChannel, scope, closeCalls, errorPath>>
    /\ NotClient

\* Mutant: closing a closed channel releases it again.
ChannelCloseUnguarded ==
    /\ channel' = [channel EXCEPT !.closed = TRUE, !.releases = @ + 1]
    /\ callers' = [c \in Callers |->
                      IF Pending(c)
                      THEN [callers[c] EXCEPT !.rpc =
                               Some([The(@) EXCEPT !.status = "failed",
                                                   !.result = Some(Cancelled)])]
                      ELSE callers[c]]

\* `self._channel.close()`, grpc Channel.close(): an open channel is
\* released and the RPCs active on it are terminated; on a closed channel
\* the call does nothing.
ChannelClose ==
    IF channel.closed
    THEN UNCHANGED <<channel, callers>>
    ELSE /\ channel' = [channel EXCEPT !.closed = TRUE, !.releases = @ + 1]
         /\ callers' = [c \in Callers |->
                           IF Pending(c)
                           THEN [callers[c] EXCEPT !.rpc =
                                    Some([The(@) EXCEPT !.status = "failed",
                                                        !.result = Some(Cancelled)])]
                           ELSE callers[c]]

\* Mutant: close() only forgets the channel (`self._channel = None`).
CloseForgetsChannel ==
    /\ clientChannel' = Nothing
    /\ UNCHANGED <<channel, callers>>
    /\ closeCalls' = closeCalls + 1
    /\ errorPath' = IF errorPath = "raised" THEN "closed" ELSE errorPath
    /\ UNCHANGED server
    /\ UNCHANGED <<scanVars, builderVars, storeVars>>

\* Client.close: `if self._channel: self._channel.close()`.
Close ==
    /\ IF clientChannel # Nothing
       THEN ChannelClose
       ELSE UNCHANGED <<channel, callers>>
    /\ closeCalls' = closeCalls + 1
    /\ errorPath' = IF errorPath = "raised" THEN "closed" ELSE errorPath
    /\ UNCHANGED <<server, clientChannel>>
    /\ NotClient

\* Some thread calls client.close().
ExplicitClose ==
    /\ closeCalls < MaxCloses
    /\ Close
    /\ UNCHANGED scope

\* Mutant: __exit__ closes the client only when the block ended normally.
ExitOnlyIfClean(exception) ==
    /\ scope' = "exited"
    /\ IF exception
       THEN /\ UNCHANGED <<server, channel, clientChannel, callers, closeCalls, errorPath>>
            /\ UNCHANGED <<scanVars, builderVars, storeVars>>
       ELSE Close

\* Client.__exit__(exc_type, exc_val, exc_tb): `self.close()`.
Exit(exception) ==
    /\ scope' = "exited"
    /\ Close

\* The `with` block of thread c1 ends normally.
ScopeExitNormal ==
    /\ scope = "inside"
    /\ callers["c1"].pc \in {"idle", "returned"}
    /\ Exit(FALSE)

\* An exception leaves the `with` block of thread c1: one raised by a client
\* operation, or one raised by another statement of the block.
ScopeExitException ==
    /\ scope = "inside"
    /\ callers["c1"].pc \in {"idle", "raised"}
    /\ Exit(TRUE)

NextClient ==
    \/ \E c \in Callers, op \in UnaryOps \cup {"scan"} : Invoke(c, op)
    \/ \E c \in Callers : Send(c)
    \/ \E c \in Callers : ServeConnectFailure(c)
    \/ \E c \in Callers : ServeReply(c)
    \/ \E c \in Callers : ServeTransportFailure(c)
    \/ \E c \in Callers : ServeApplicationError(c)
    \/ \E c \in Callers, response \in {[items |-> <<>>, error |-> "E1"]} :
          ServeErrorChunk(c, response)
    \/ \E c \in Callers : UnaryReturn(c)
    \/ \E c \in Callers : UnaryRaise(c)
    \/ \E c \in Callers : ScanReturn(c)
    \/ \E c \in Callers : ScanRaiseErrorChunk(c)
    \/ \E c \in Callers : ScanRaiseTransport(c)
    \/ \E c \in Callers : Finish(c)
    \/ ExplicitClose
    \/ ScopeExitNormal
    \/ ScopeExitException

SpecClient == InitClient /\ [][NextClient]_vars

(***************************************************************************)
(* Properties of the client                                                *)
(***************************************************************************)
Unary(c) == callers[c].op \in UnaryOps

\* C11: a unary operation calls its stub method exactly once per invocation,
\* whether the call returns or raises; a failed call is not issued again;
\* what the operation returns is the stub's response and what it raises is
\* the stub's error, unchanged.
C11_UnaryIssuesOneCallNoRetry ==
    \A c \in Callers :
        Unary(c) /\ callers[c].pc \in {"in_call", "returned", "raised"} =>
            /\ callers[c].stubCalls = 1
            /\ The(callers[c].rpc).method = StubMethod(callers[c].op)
            /\ callers[c].pc = "returned" =>
                  /\ The(callers[c].rpc).status = "replied"
                  /\ callers[c].outcome = The(callers[c].rpc).result
            /\ callers[c].pc = "raised" =>
                  /\ The(callers[c].rpc).status = "failed"
                  /\ callers[c].outcome = The(callers[c].rpc).result

\* A unary operation has raised the transport error of its one call.
C11_Witness ==
    \E c \in Callers :
        /\ Unary(c)
        /\ callers[c].pc = "raised"
        /\ callers[c].outcome = Some(RpcError)
        /\ callers[c].stubCalls = 1

C13_ScopeExitReleasesChannel ==
    scope = "exited" => channel.closed

\* The block was left by the exception of a failed operation, and __exit__
\* made the only close() call.
C13_Witness ==
    /\ scope = "exited"
    /\ callers["c1"].pc = "raised"
    /\ closeCalls = 1
    /\ channel.closed

\* C14: with the threads' calls interleaved in any way, the request a call
\* sends is its own caller's request and the response a unary call returns
\* is the service's answer to that request; the client's attributes are not
\* changed by the calls.
C14_EachCallerGetsOwnResponse ==
    /\ clientChannel = Some("channel")
    /\ \A c \in Callers :
          /\ callers[c].rpc # Nothing =>
                The(callers[c].rpc).request = RequestOf(c)
          /\ Unary(c) /\ callers[c].pc = "returned" =>
                callers[c].outcome =
                    Some(Reply(StubMethod(callers[c].op), RequestOf(c)))

\* Both threads have unary calls in progress on the client at once, and the
\* answers to both have arrived.
C14_Witness ==
    /\ \A c \in Callers :
          /\ Unary(c)
          /\ callers[c].rpc # Nothing
          /\ The(callers[c].rpc).status = "replied"
    /\ callers["c1"].pc = "returned"
    /\ callers["c2"].pc = "in_call"

\* C15: once close() has returned, no call is pending on the channel, and a
\* call that was outstanding when the channel was closed ends by raising
\* the cancellation error, never by returning a response.
C15_CloseAbortsOutstandingCalls ==
    closeCalls >= 1 =>
        \A c \in Callers :
            /\ ~Pending(c)
            /\ (callers[c].rpc # Nothing /\
                The(callers[c].rpc).result = Some(Cancelled)) =>
                  /\ The(callers[c].rpc).status = "failed"
                  /\ callers[c].pc \in {"in_call", "raised"}
                  /\ callers[c].pc = "raised" => callers[c].outcome = Some(Cancelled)

\* Both threads' calls were outstanding at the close and have been aborted:
\* one has raised already.
C15_Witness ==
    /\ closeCalls = 1
    /\ \A c \in Callers :
          /\ callers[c].rpc # Nothing
          /\ The(callers[c].rpc).result = Some(Cancelled)
    /\ callers["c1"].pc = "raised"
    /\ callers["c1"].outcome = Some(Cancelled)

\* C18: connect establishes the connection before it returns, so no
\* operation of the client raises the failure to connect.
C18_ConnectFailureNeverOnOperation ==
    \A c \in Callers :
        callers[c].pc = "raised" => callers[c].outcome # Some(ConnectFailed)

\* C20: after an operation has raised, the client still holds its channel,
\* and a close() call made after that leaves the channel closed, released
\* once.
C20_ErrorPathLeavesChannelClosable ==
    /\ errorPath # "none" => clientChannel = Some("channel")
    /\ errorPath = "closed" =>
          /\ channel.closed
          /\ channel.releases = 1

\* A scan has raised on an error chunk and close() was called after it.
C20_Witness ==
    /\ errorPath = "closed"
    /\ \E c \in Callers :
          /\ callers[c].op = "scan"
          /\ callers[c].pc = "raised"
          /\ The(callers[c].outcome).type = "Exception"
    /\ channel.closed

(***************************************************************************)
(* Put, get and delete through the client against the service's store.     *)
(* The service is not part of the client: its store is a mapping from key  *)
(* (partition key with optional sort key) to the item last put there, as    *)
(* the specification's data model describes it.                            *)
(***************************************************************************)
\* Most operations made in one run.
MaxOps == 4

StoreKeys ==
    {[partition_key |-> <<1>>, sort_key |-> Nothing],
     [partition_key |-> <<1>>, sort_key |-> Some(<<1>>)],
     [partition_key |-> <<2>>, sort_key |-> Nothing]}

StoreItems ==
    {[attributes |-> [name |-> [string_value |-> "Alice"],
                      age |-> [number_value |-> "30"]]],
     [attributes |-> [name |-> [string_value |-> "Bob"],
                      age |-> [number_value |-> "30.0"]]]}

KeyOf(req) == [partition_key |-> req.partition_key, sort_key |-> req.sort_key]

\* The service's handlers: the store after the request, and the item a get
\* answers with.
ServicePut(st, req) == [st EXCEPT ![KeyOf(req)] = Some(req.item)]
ServiceGet(st, req) == st[KeyOf(req)]
ServiceDelete(st, req) == [st EXCEPT ![KeyOf(req)] = Nothing]

\* `self._stub.<method>(request)` on a connected channel: the service handles
\* the request; `got` is the response of a Get.
Stub(method, req) ==
    CASE method = "Put" ->
            /\ store' = ServicePut(store, req)
            /\ got' = Nothing
      [] method = "Get" ->
            /\ store' = store
            /\ got' = Some([item |-> ServiceGet(store, req)])
      [] method = "Delete" ->
            /\ store' = ServiceDelete(store, req)
            /\ got' = Nothing

InitStore ==
    /\ NoScan
    /\ NoBuilder
    /\ server = "up"
    /\ Connect
    /\ callers = [c \in Callers |-> IdleCaller]
    /\ scope = "none"
    /\ closeCalls = 0
    /\ errorPath = "none"
    /\ store = [k \in StoreKeys |-> Nothing]
    /\ history = <<>>
    /\ got = Nothing
    /\ disk = <<>>
    /\ handle = "none"

\* The caller's record of the operation it made.
Did(op, req) ==
    /\ Len(history) < MaxOps
    /\ history' = Append(history, [op |-> op, request |-> req])
    /\ UNCHANGED <<scanVars, builderVars, clientVars, disk, handle>>

\* client.put(request)
StorePut(req) ==
    /\ Stub(StubMethod("put"), req)
    /\ Did("put", req)

\* client.get(request)
StoreGet(req) ==
    /\ Stub(StubMethod("get"), req)
    /\ Did("get", req)

\* client.delete(request)
StoreDelete(req) ==
    /\ Stub(StubMethod("delete"), req)
    /\ Did("delete", req)

NextStore ==
    \/ \E k \in StoreKeys, item \in StoreItems :
          StorePut([partition_key |-> k.partition_key, sort_key |-> k.sort_key,
                    item |-> item])
    \/ \E k \in StoreKeys : StoreGet(k)
    \/ \E k \in StoreKeys : StoreDelete(k)

SpecStore == InitStore /\ [][NextStore]_vars

(***************************************************************************)
(* Properties of put, get and delete                                       *)
(***************************************************************************)
\* The positions in the history of the puts and deletes of key k.
WritesOf(k) ==
    {i \in 1..Len(history) :
        /\ history[i].op \in {"put", "delete"}
        /\ KeyOf(history[i].request) = k}

\* The position of the last put or delete of key k (0: there is none).
LastWrite(k) ==
    IF WritesOf(k) = {} THEN 0
    ELSE CHOOSE i \in WritesOf(k) : \A j \in WritesOf(k) : j <= i

\* The key of the get that was just answered.
GotKey == KeyOf(history[Len(history)].request)

\* C16: a get of a key whose last write was a put returns a present item
\* equal to the item of that put (of the last put when the key was put
\* several times), its number attribute being the same decimal text.
C16_ReadYourWrite ==
    got # Nothing =>
        LET w == LastWrite(GotKey)
        IN  (w > 0 /\ history[w].op = "put") =>
                /\ The(got).item # Nothing
                /\ The(got).item = Some(history[w].request.item)
                /\ The(The(got).item).attributes.age.number_value =
                       history[w].request.item.attributes.age.number_value

\* A key with a sort key was put twice with different items, and the get
\* returned the last one, age "30".
C16_Witness ==
    /\ Len(history) = 3
    /\ got # Nothing
    /\ history[1].op = "put"
    /\ history[2].op = "put"
    /\ history[1].request.item # history[2].request.item
    /\ GotKey = KeyOf(history[1].request)
    /\ GotKey = KeyOf(history[2].request)
    /\ GotKey.sort_key # Nothing
    /\ The(got).item = Some(history[2].request.item)
    /\ The(The(got).item).attributes.age.number_value = "30"

\* C17: once some key has been deleted, a get returns no item for a key
\* whose last write was a delete, and the item last put for a key whose
\* last write was a put: the delete of a key changes no other key.
C17_DeleteRemovesOnlyItsKey ==
    (got # Nothing /\ \E i \in 1..Len(history) : history[i].op = "delete") =>
        LET w == LastWrite(GotKey)
        IN  /\ (w > 0 /\ history[w].op = "delete") => The(got).item = Nothing
            /\ (w > 0 /\ history[w].op = "put") =>
                  The(got).item = Some(history[w].request.item)
            /\ \A k \in StoreKeys :
                  (LastWrite(k) > 0 /\ history[LastWrite(k)].op = "delete") =>
                      store[k] = Nothing

\* Two keys were put, one of them was deleted, and the get of the other
\* returned its item.
C17_Witness ==
    /\ Len(history) = 4
    /\ history[1].op = "put"
    /\ history[2].op = "put"
    /\ history[3].op = "delete"
    /\ KeyOf(history[3].request) = KeyOf(history[1].request)
    /\ KeyOf(history[2].request) # KeyOf(history[1].request)
    /\ GotKey = KeyOf(history[2].request)
    /\ got = Some([item |-> Some(history[2].request.item)])
    /\ store[KeyOf(history[1].request)] = Nothing

(***************************************************************************)
(* Batch and transactional requests through the client: a request is the   *)
(* ordered list of its operations, and `history` holds the request the     *)
(* caller passed to the call in progress, as it was when passed.           *)
(***************************************************************************)
\* Most operations in one batch or transactional request.
MaxBatch == 2

BatchOps == {"batch_get", "batch_write", "transact_get", "transact_write"}

BatchOperations ==
    {[type |-> "put", key |-> <<1>>],
     [type |-> "delete", key |-> <<1>>],
     [type |-> "put", key |-> <<2>>]}

BatchRequests == {[operations |-> ops] : ops \in SeqsUpTo(BatchOperations, MaxBatch)}

InitForward ==
    /\ NoScan
    /\ NoBuilder
    /\ NoStore
    /\ server = "up"
    /\ Connect
    /\ callers = [c \in Callers |-> IdleCaller]
    /\ scope = "none"
    /\ closeCalls = 0
    /\ errorPath = "none"

\* Thread c calls client.<op>(req), req a request the caller built.
InvokeWith(c, op, req) ==
    /\ callers[c].pc = "idle"
    /\ callers' = [callers EXCEPT ![c] =
                      [IdleCaller EXCEPT !.pc = "entered", !.op = op,
                                         !.request = Some(req)]]
    /\ history' = <<[op |-> op, request |-> req]>>
    /\ UNCHANGED <<server, channel, clientChannel, scope, closeCalls, errorPath>>
    /\ UNCHANGED <<scanVars, builderVars, store, got, disk, handle>>

NextForward ==
    \/ \E op \in BatchOps, req \in BatchRequests : InvokeWith("c1", op, req)
    \/ \E c \in Callers : Send(c)
    \/ \E c \in Callers : ServeReply(c)
    \/ \E c \in Callers : ServeTransportFailure(c)
    \/ \E c \in Callers : ServeApplicationError(c)
    \/ \E c \in Callers : UnaryReturn(c)
    \/ \E c \in Callers : UnaryRaise(c)
    \/ \E c \in Callers : Finish(c)

SpecForward == InitForward /\ [][NextForward]_vars

\* The request the caller passed, as it was when passed.
Given == history[1].request

\* C23: during and after a call, returned or raised, the caller's request
\* is as the caller passed it, and the request the stub was called with is
\* equal to it: the same operations in the same order.
C23_RequestForwardedUnchanged ==
    callers["c1"].pc # "idle" =>
        /\ callers["c1"].request = Some(Given)
        /\ callers["c1"].rpc # Nothing =>
              LET sent == The(callers["c1"].rpc).request
              IN  /\ sent = Given
                  /\ Len(sent.operations) = Len(Given.operations)
                  /\ \A i \in 1..Len(Given.operations) :
                        sent.operations[i] = Given.operations[i]

\* A transactional write of two different operations has returned.
C23_Witness ==
    /\ callers["c1"].pc = "returned"
    /\ callers["c1"].op = "transact_write"
    /\ Len(Given.operations) = 2
    /\ Given.operations[1] # Given.operations[2]
    /\ The(callers["c1"].rpc).request.operations = Given.operations
    /\ callers["c1"].outcome = Some(Reply("TransactWrite", Given))

(***************************************************************************)
(* The embedded Database of test_smoke.py: create, put, get, flush, close  *)
(* (`del db`) and open on one path.  `store` is what the open handle       *)
(* reads, `disk` what the file at the path holds.  Whether closing the     *)
(* handle writes unflushed puts to the file is not fixed by the tests:     *)
(* both outcomes are allowed.                                              *)
(***************************************************************************)
\* Most operations made on the database in one run.
MaxDbOps == 5

DbKeys ==
    {[partition_key |-> <<1>>, sort_key |-> Nothing],
     [partition_key |-> <<2>>, sort_key |-> Nothing]}

DbItems == {[data |-> "should persist"], [data |-> "other"]}

\* keystonedb.Database.create(db_path)
InitReopen ==
    /\ NoScan
    /\ NoBuilder
    /\ NoClient
    /\ store = [k \in DbKeys |-> Nothing]
    /\ disk = [k \in DbKeys |-> Nothing]
    /\ handle = "open"
    /\ history = <<>>
    /\ got = Nothing

DbDid(op, req) ==
    /\ Len(history) < MaxDbOps
    /\ history' = Append(history, [op |-> op, request |-> req])
    /\ UNCHANGED <<scanVars, builderVars, clientVars>>

\* db.put(key, item)
DbPut(k, item) ==
    /\ handle = "open"
    /\ store' = [store EXCEPT ![k] = Some(item)]
    /\ got' = Nothing
    /\ UNCHANGED <<disk, handle>>
    /\ DbDid("put", [partition_key |-> k.partition_key, sort_key |-> k.sort_key,
                     item |-> item])

\* db.get(key)
DbGet(k) ==
    /\ handle = "open"
    /\ got' = Some([item |-> store[k]])
    /\ UNCHANGED <<store, disk, handle>>
    /\ DbDid("get", k)

\* Mutant: flush returns without writing.
DbFlushNothing ==
    /\ handle = "open"
    /\ got' = Nothing
    /\ UNCHANGED <<store, disk, handle>>
    /\ DbDid("flush", Nothing)

\* db.flush()
DbFlush ==
    /\ handle = "open"
    /\ disk' = store
    /\ got' = Nothing
    /\ UNCHANGED <<store, handle>>
    /\ DbDid("flush", Nothing)

\* `del db`: the handle is closed; puts not flushed may or may not reach
\* the file.
DbClose ==
    /\ handle = "open"
    /\ handle' = "closed"
    /\ disk' \in {disk, store}
    /\ got' = Nothing
    /\ UNCHANGED store
    /\ DbDid("close", Nothing)

\* keystonedb.Database.open(db_path)
DbOpen ==
    /\ handle = "closed"
    /\ handle' = "open"
    /\ store' = disk
    /\ got' = Nothing
    /\ UNCHANGED disk
    /\ DbDid("open", Nothing)

NextReopen ==
    \/ \E k \in DbKeys, item \in DbItems : DbPut(k, item)
    \/ \E k \in DbKeys : DbGet(k)
    \/ DbFlush
    \/ DbClose
    \/ DbOpen

SpecReopen == InitReopen /\ [][NextReopen]_vars

\* C24: a get of a key on a handle opened after the key's last put was
\* flushed and the handle that made the put was closed returns the item of
\* that put.
C24_FlushedPutSurvivesReopen ==
    got # Nothing =>
        LET n == Len(history)
            w == LastWrite(GotKey)
        IN  (/\ w > 0
             /\ \E f \in (w + 1)..n, c \in (w + 1)..n, o \in (w + 1)..n :
                   /\ f < c
                   /\ c < o
                   /\ history[f].op = "flush"
                   /\ history[c].op = "close"
                   /\ history[o].op = "open") =>
                The(got).item = Some(history[w].request.item)

\* put, flush, del, open, get: the item is returned by the new handle.
C24_Witness ==
    /\ Len(history) = 5
    /\ history[1].op = "put"
    /\ history[2].op = "flush"
    /\ history[3].op = "close"
    /\ history[4].op = "open"
    /\ history[5].op = "get"
    /\ GotKey = KeyOf(history[1].request)
    /\ got = Some([item |-> Some([data |-> "should persist"])])

(***************************************************************************)
(* Several scan calls on one client: each thread of Callers makes scan     *)
(* calls one after another, the calls of different threads interleaved.    *)
(* Each call has its own response stream, whose items carry the thread     *)
(* and the number of the call they were sent to.                           *)
(***************************************************************************)
\* Most chunks in one response stream.
MaxStream == 2

\* Most scan calls one thread makes.
MaxScans == 2

\* An item of the stream answering call n of thread c.
Tag(c, n, i) == <<c, n, i>>

\* The chunks the stream answering call n of thread c can deliver.
ChunksFor(c, n) ==
    {[items |-> <<Tag(c, n, 1), Tag(c, n, 2)>>, error |-> ""],
     [items |-> <<Tag(c, n, 3)>>, error |-> "E1"]}

NoScanCall ==
    [pc |-> "idle", n |-> 0, stream |-> <<>>, streamEnd |-> "eos", consumed |-> 0,
     items |-> <<>>, outcome |-> Nothing, priorFailed |-> FALSE]

InitScans ==
    /\ stream = <<>>
    /\ streamEnd = "eos"
    /\ consumed = 0
    /\ scanState = "Idle"
    /\ items = <<>>
    /\ returned = Nothing
    /\ raised = Nothing
    /\ NoBuilder
    /\ NoStore
    /\ server = "up"
    /\ Connect
    /\ callers = [c \in Callers |-> IdleCaller]
    /\ scope = "none"
    /\ closeCalls = 0
    /\ errorPath = "none"
    /\ scans = [c \in Callers |-> NoScanCall]

\* The call failed on an error chunk after it had gathered items.
FailedWithItems(call) ==
    /\ call.pc = "raised"
    /\ call.items # <<>>

\* A step of the scan call of thread c that leaves it as `call`.
ScanCallBecomes(c, call) ==
    /\ scans' = [scans EXCEPT ![c] = call]
    /\ UNCHANGED <<stream, streamEnd, consumed, scanState, items, returned, raised>>
    /\ UNCHANGED <<builderVars, clientVars, storeVars>>

\* Mutant: the accumulator is an attribute of the client, created once
\* (`self._items = []` in __init__) and extended by every call.
ScansStartKeepsItems(c, s, end) ==
    /\ scans[c].pc # "running"
    /\ scans[c].n < MaxScans
    /\ ScanCallBecomes(c, [pc |-> "running", n |-> scans[c].n + 1, stream |-> s,
                           streamEnd |-> end, consumed |-> 0,
                           items |-> scans[c].items, outcome |-> Nothing,
                           priorFailed |-> FailedWithItems(scans[c])])

\* Thread c calls client.scan(request): `items = []`, and the stub's Scan
\* gives the iterator over the stream s that answers this call.
\* `priorFailed` remembers whether the thread's previous call failed with
\* items gathered.
ScansStart(c, s, end) ==
    /\ scans[c].pc # "running"
    /\ scans[c].n < MaxScans
    /\ ScanCallBecomes(c, [pc |-> "running", n |-> scans[c].n + 1, stream |-> s,
                           streamEnd |-> end, consumed |-> 0,
                           items |-> <<>>, outcome |-> Nothing,
                           priorFailed |-> FailedWithItems(scans[c])])

\* One iteration of the loop of thread c's call.
ScansChunk(c) ==
    /\ scans[c].pc = "running"
    /\ scans[c].consumed < Len(scans[c].stream)
    /\ LET response == scans[c].stream[scans[c].consumed + 1]
       IN  IF HasError(response)
           THEN ScanCallBecomes(c, [scans[c] EXCEPT
                                       !.consumed = @ + 1,
                                       !.pc = "raised",
                                       !.outcome = Some(ScanException(response))])
           ELSE ScanCallBecomes(c, [scans[c] EXCEPT
                                       !.consumed = @ + 1,
                                       !.items = Extend(@, response)])

\* The iterator of thread c's call is exhausted, or raises.
ScansEnd(c) ==
    /\ scans[c].pc = "running"
    /\ scans[c].consumed = Len(scans[c].stream)
    /\ IF scans[c].streamEnd = "eos"
       THEN ScanCallBecomes(c, [scans[c] EXCEPT !.pc = "returned",
                                                !.outcome = Some(scans[c].items)])
       ELSE ScanCallBecomes(c, [scans[c] EXCEPT !.pc = "raised",
                                                !.outcome = Some(RpcError)])

NextScans ==
    \/ \E c \in Callers, end \in {"eos", "rpc_error"} :
          \E s \in SeqsUpTo(ChunksFor(c, scans[c].n + 1), MaxStream) :
             ScansStart(c, s, end)
    \/ \E c \in Callers : ScansChunk(c)
    \/ \E c \in Callers : ScansEnd(c)

SpecScans == InitScans /\ [][NextScans]_vars

\* The items of the sequence seq.
Elements(seq) == {seq[i] : i \in DOMAIN seq}

\* C27: the items a scan call holds, and the items it returns, are items of
\* the chunks of its own stream and of no other call: not of the call of
\* another thread running at the same time, and not of an earlier call of
\* the same thread, failed or not.  What it returns is the concatenation
\* of its own stream's chunks.
C27_ScansIsolated ==
    \A c \in Callers :
        /\ \A item \in Elements(scans[c].items) :
              scans[c].pc = "running" => (item[1] = c /\ item[2] = scans[c].n)
        /\ scans[c].pc = "returned" =>
              /\ scans[c].outcome = Some(ConcatItems(scans[c].stream))
              /\ \A item \in Elements(The(scans[c].outcome)) :
                    /\ item[1] = c /\ item[2] = scans[c].n
                    /\ \A d \in Callers \ {c} : item \notin Elements(scans[d].items)

\* The second scan of thread c2, made after its first scan had failed with
\* items gathered, has returned its own items while a scan of thread c1 is
\* under way with items gathered.
C27_Witness ==
    /\ scans["c2"].pc = "returned"
    /\ scans["c2"].n = 2
    /\ scans["c2"].priorFailed
    /\ scans["c2"].outcome = Some(<<Tag("c2", 2, 1), Tag("c2", 2, 2)>>)
    /\ scans["c1"].pc = "running"
    /\ scans["c1"].n = 1
    /\ scans["c1"].items = <<Tag("c1", 1, 1), Tag("c1", 1, 2)>>
    /\ scans["c1"].consumed < Len(scans["c1"].stream)

====
